---- MODULE Spec2Model ----
(***************************************************************************)
(* Read path of the immutable radix tree: node lookups (node.go), the      *)
(* forward iterator (iter.go) and the reverse iterator.                    *)
(*                                                                         *)
(* Nodes live in a heap `nodes`, a function from node addresses to node    *)
(* records.  The address of a node is the byte path from the root to it,   *)
(* which never changes once the node exists.  A pointer is a sequence of   *)
(* length 0 (nil) or 1 (the address).  Slice indices keep Go's 0-based     *)
(* values; element idx of a Go slice is element idx+1 of the sequence.     *)
(***************************************************************************)
EXTENDS Integers, Sequences, FiniteSets, TLC

\* ---------------------------------------------------------------- bounds
MaxKeys == 4
MaxSeeks == 2
MaxReaders == 3
MaxOps == 2

\* keys, prefixes and search keys: every byte string over Bytes no longer
\* than the longest element of Lengths
Bytes == {1, 2}
Lengths == 0..2

\* the value stored with key k: one value per key, none of them a key
ValOf(k) == <<0>> \o k

RECURSIVE SeqsOfLen(_)
SeqsOfLen(n) ==
    IF n = 0 THEN {<<>>}
    ELSE {Append(s, b) : s \in SeqsOfLen(n - 1), b \in Bytes}

Keys == UNION {SeqsOfLen(n) : n \in Lengths}

\* ------------------------------------------------------- pointers, slices
Nil == <<>>
Ptr(a) == <<a>>
RootAddr == <<>>

\* s[from:] of Go, from 0-based
SliceFrom(s, from) == SubSeq(s, from + 1, Len(s))
\* s[:to] of Go
SliceTo(s, to) == SubSeq(s, 1, to)

\* ------------------------------------------------------------ package bytes
HasPrefix(s, prefix) ==
    Len(s) >= Len(prefix) /\ SubSeq(s, 1, Len(prefix)) = prefix

RECURSIVE Compare(_, _)
Compare(a, b) ==
    IF a = <<>> /\ b = <<>> THEN 0
    ELSE IF a = <<>> THEN -1
    ELSE IF b = <<>> THEN 1
    ELSE IF Head(a) < Head(b) THEN -1
    ELSE IF Head(a) > Head(b) THEN 1
    ELSE Compare(Tail(a), Tail(b))

Equal(a, b) == a = b

\* ------------------------------------------------------------------- nodes
leafNode(key, val) == [key |-> key, val |-> val]
edge(label, node) == [label |-> label, node |-> node]
Node(leaf, prefix, edges) == [leaf |-> leaf, prefix |-> prefix, edges |-> edges]

isLeaf(n) == n.leaf # Nil

\* sort.Search(num, func(i) { return edges[i].label >= label }): binary search
RECURSIVE Search(_, _, _, _)
Search(edges, label, i, j) ==
    IF i < j
    THEN LET h == (i + j) \div 2
         IN  IF ~(edges[h + 1].label >= label)
             THEN Search(edges, label, h + 1, j)
             ELSE Search(edges, label, i, h)
    ELSE i

\* addEdge without the search: the edge is put last
addEdgeAppend(n, e) == [n EXCEPT !.edges = Append(n.edges, e)]

addEdge(n, e) ==
    LET num == Len(n.edges)
        idx == Search(n.edges, e.label, 0, num)
    IN  [n EXCEPT !.edges = SliceTo(n.edges, idx) \o <<e>> \o SliceFrom(n.edges, idx)]

\* replaceEdge taking the edge the search stops at, whatever its label
replaceEdgeAtSearch(n, e) ==
    LET num == Len(n.edges)
        idx == Search(n.edges, e.label, 0, num)
    IN  IF idx < num
        THEN [ok |-> TRUE, n |-> [n EXCEPT !.edges[idx + 1].node = e.node]]
        ELSE [ok |-> FALSE, n |-> n]

\* returns [ok |-> FALSE] for the panic
replaceEdge(n, e) ==
    LET num == Len(n.edges)
        idx == Search(n.edges, e.label, 0, num)
    IN  IF idx < num /\ n.edges[idx + 1].label = e.label
        THEN [ok |-> TRUE, n |-> [n EXCEPT !.edges[idx + 1].node = e.node]]
        ELSE [ok |-> FALSE, n |-> n]

getEdge(n, label) ==
    LET num == Len(n.edges)
        idx == Search(n.edges, label, 0, num)
    IN  IF idx < num /\ n.edges[idx + 1].label = label
        THEN [idx |-> idx, node |-> Ptr(n.edges[idx + 1].node)]
        ELSE [idx |-> -1, node |-> Nil]

getLowerBoundEdge(n, label) ==
    LET num == Len(n.edges)
        idx == Search(n.edges, label, 0, num)
    IN  IF idx < num
        THEN [idx |-> idx, node |-> Ptr(n.edges[idx + 1].node)]
        ELSE [idx |-> -1, node |-> Nil]

\* delEdge: remove the edge with the given label, if any
delEdge(n, label) ==
    LET num == Len(n.edges)
        idx == Search(n.edges, label, 0, num)
    IN  IF idx < num /\ n.edges[idx + 1].label = label
        THEN [n EXCEPT !.edges = SliceTo(n.edges, idx) \o SliceFrom(n.edges, idx + 1)]
        ELSE n

\* A watch signal is identified by its owner: a node or a leaf record.
nodeMutateCh(a) == [owner |-> "node", at |-> a]
leafMutateCh(l) == [owner |-> "leaf", at |-> l.key]

\* ------------------------------------------------------------ node lookups
\* GetWatch trusting the edge label: the child's prefix is not compared
RECURSIVE GetWatchLoopLabelOnly(_, _, _, _)
GetWatchLoopLabelOnly(h, n, search, watch) ==
    IF Len(search) = 0
    THEN IF isLeaf(h[n])
         THEN [watch |-> leafMutateCh(h[n].leaf[1]), val |-> <<h[n].leaf[1].val>>, ok |-> TRUE]
         ELSE [watch |-> watch, val |-> <<>>, ok |-> FALSE]
    ELSE LET c == getEdge(h[n], search[1]).node
         IN  IF c = Nil
             THEN [watch |-> watch, val |-> <<>>, ok |-> FALSE]
             ELSE GetWatchLoopLabelOnly(h, c[1], SliceFrom(search, Len(h[c[1]].prefix)),
                                        nodeMutateCh(c[1]))

\* GetWatch taking the child's watch only after the prefix comparison
RECURSIVE GetWatchLoopWatchLate(_, _, _, _)
GetWatchLoopWatchLate(h, n, search, watch) ==
    IF Len(search) = 0
    THEN IF isLeaf(h[n])
         THEN [watch |-> leafMutateCh(h[n].leaf[1]), val |-> <<h[n].leaf[1].val>>, ok |-> TRUE]
         ELSE [watch |-> watch, val |-> <<>>, ok |-> FALSE]
    ELSE LET c == getEdge(h[n], search[1]).node
         IN  IF c = Nil
             THEN [watch |-> watch, val |-> <<>>, ok |-> FALSE]
             ELSE IF HasPrefix(search, h[c[1]].prefix)
                  THEN GetWatchLoopWatchLate(h, c[1], SliceFrom(search, Len(h[c[1]].prefix)),
                                             nodeMutateCh(c[1]))
                  ELSE [watch |-> watch, val |-> <<>>, ok |-> FALSE]

\* The loop of GetWatch; n is the address of the current node in heap h.
RECURSIVE GetWatchLoop(_, _, _, _)
GetWatchLoop(h, n, search, watch) ==
    IF Len(search) = 0
    THEN IF isLeaf(h[n])
         THEN [watch |-> leafMutateCh(h[n].leaf[1]), val |-> <<h[n].leaf[1].val>>, ok |-> TRUE]
         ELSE [watch |-> watch, val |-> <<>>, ok |-> FALSE]
    ELSE LET c == getEdge(h[n], search[1]).node
         IN  IF c = Nil
             THEN [watch |-> watch, val |-> <<>>, ok |-> FALSE]
             ELSE IF HasPrefix(search, h[c[1]].prefix)
                  THEN GetWatchLoop(h, c[1], SliceFrom(search, Len(h[c[1]].prefix)),
                                    nodeMutateCh(c[1]))
                  ELSE [watch |-> nodeMutateCh(c[1]), val |-> <<>>, ok |-> FALSE]

GetWatch(h, n, k) == GetWatchLoop(h, n, k, nodeMutateCh(n))

Get(h, n, k) ==
    LET r == GetWatch(h, n, k)
    IN  [val |-> r.val, ok |-> r.ok]

\* LongestPrefix testing key exhaustion before it records the node's leaf
RECURSIVE LongestPrefixLoopLate(_, _, _, _)
LongestPrefixLoopLate(h, n, search, last0) ==
    IF Len(search) = 0 THEN last0
    ELSE LET last == IF isLeaf(h[n]) THEN h[n].leaf ELSE last0
             c == getEdge(h[n], search[1]).node
         IN  IF c = Nil THEN last
             ELSE IF HasPrefix(search, h[c[1]].prefix)
                  THEN LongestPrefixLoopLate(h, c[1],
                                             SliceFrom(search, Len(h[c[1]].prefix)), last)
                  ELSE last

RECURSIVE LongestPrefixLoop(_, _, _, _)
LongestPrefixLoop(h, n, search, last0) ==
    LET last == IF isLeaf(h[n]) THEN h[n].leaf ELSE last0
    IN  IF Len(search) = 0 THEN last
        ELSE LET c == getEdge(h[n], search[1]).node
             IN  IF c = Nil THEN last
                 ELSE IF HasPrefix(search, h[c[1]].prefix)
                      THEN LongestPrefixLoop(h, c[1],
                                             SliceFrom(search, Len(h[c[1]].prefix)), last)
                      ELSE last

LongestPrefix(h, n, k) ==
    LET last == LongestPrefixLoop(h, n, k, Nil)
    IN  IF last # Nil
        THEN [key |-> <<last[1].key>>, val |-> <<last[1].val>>, ok |-> TRUE]
        ELSE [key |-> <<>>, val |-> <<>>, ok |-> FALSE]

\* Minimum descending before it looks at the leaf, as Maximum does
RECURSIVE MinimumDeepest(_, _)
MinimumDeepest(h, n) ==
    IF Len(h[n].edges) > 0
    THEN MinimumDeepest(h, h[n].edges[1].node)
    ELSE IF isLeaf(h[n])
         THEN [key |-> <<h[n].leaf[1].key>>, val |-> <<h[n].leaf[1].val>>, ok |-> TRUE]
         ELSE [key |-> <<>>, val |-> <<>>, ok |-> FALSE]

RECURSIVE Minimum(_, _)
Minimum(h, n) ==
    IF isLeaf(h[n])
    THEN [key |-> <<h[n].leaf[1].key>>, val |-> <<h[n].leaf[1].val>>, ok |-> TRUE]
    ELSE IF Len(h[n].edges) > 0
         THEN Minimum(h, h[n].edges[1].node)
         ELSE [key |-> <<>>, val |-> <<>>, ok |-> FALSE]

\* Maximum looking at the leaf before it descends, as Minimum does
RECURSIVE MaximumLeafFirst(_, _)
MaximumLeafFirst(h, n) ==
    IF isLeaf(h[n])
    THEN [key |-> <<h[n].leaf[1].key>>, val |-> <<h[n].leaf[1].val>>, ok |-> TRUE]
    ELSE IF Len(h[n].edges) > 0
         THEN MaximumLeafFirst(h, h[n].edges[Len(h[n].edges)].node)
         ELSE [key |-> <<>>, val |-> <<>>, ok |-> FALSE]

RECURSIVE Maximum(_, _)
Maximum(h, n) ==
    LET num == Len(h[n].edges)
    IN  IF num > 0
        THEN Maximum(h, h[n].edges[num].node)
        ELSE IF isLeaf(h[n])
             THEN [key |-> <<h[n].leaf[1].key>>, val |-> <<h[n].leaf[1].val>>, ok |-> TRUE]
             ELSE [key |-> <<>>, val |-> <<>>, ok |-> FALSE]

\* A WalkFn is modelled by the set of keys on which it returns true.
WalkFn(stopOn, k) == k \in stopOn

\* recursiveWalk(n, fn): w.calls are the calls made so far, w.stop the abort
\* flag.  WalkEdges is the loop over n.edges from index idx.
RECURSIVE recursiveWalk(_, _, _, _)
RECURSIVE WalkEdges(_, _, _, _, _)
recursiveWalk(h, n, stopOn, calls) ==
    LET visit == IF h[n].leaf # Nil
                 THEN Append(calls, <<h[n].leaf[1].key, h[n].leaf[1].val>>)
                 ELSE calls
    IN  IF h[n].leaf # Nil /\ WalkFn(stopOn, h[n].leaf[1].key)
        THEN [calls |-> visit, stop |-> TRUE]
        ELSE WalkEdges(h, n, 0, stopOn, visit)

\* the loop over the edges ignoring the abort flag of the recursive call
RECURSIVE WalkEdgesNoAbort(_, _, _, _, _)
WalkEdgesNoAbort(h, n, idx, stopOn, calls) ==
    IF idx >= Len(h[n].edges)
    THEN [calls |-> calls, stop |-> FALSE]
    ELSE WalkEdgesNoAbort(h, n, idx + 1, stopOn,
                          recursiveWalk(h, h[n].edges[idx + 1].node, stopOn, calls).calls)

WalkEdges(h, n, idx, stopOn, calls) ==
    IF idx >= Len(h[n].edges)
    THEN [calls |-> calls, stop |-> FALSE]
    ELSE LET r == recursiveWalk(h, h[n].edges[idx + 1].node, stopOn, calls)
         IN  IF r.stop THEN r
             ELSE WalkEdges(h, n, idx + 1, stopOn, r.calls)

\* Walk(fn): the sequence of calls fn receives
Walk(h, n, stopOn) == recursiveWalk(h, n, stopOn, <<>>).calls

\* reverseRecursiveWalk(n, fn); ReverseWalkEdges is the loop over n.edges
\* from index idx down to 0
RECURSIVE reverseRecursiveWalk(_, _, _, _)
RECURSIVE ReverseWalkEdges(_, _, _, _, _)
reverseRecursiveWalk(h, n, stopOn, calls) ==
    LET visit == IF h[n].leaf # Nil
                 THEN Append(calls, <<h[n].leaf[1].key, h[n].leaf[1].val>>)
                 ELSE calls
    IN  IF h[n].leaf # Nil /\ WalkFn(stopOn, h[n].leaf[1].key)
        THEN [calls |-> visit, stop |-> TRUE]
        ELSE ReverseWalkEdges(h, n, Len(h[n].edges) - 1, stopOn, visit)

ReverseWalkEdges(h, n, idx, stopOn, calls) ==
    IF idx < 0
    THEN [calls |-> calls, stop |-> FALSE]
    ELSE LET r == reverseRecursiveWalk(h, h[n].edges[idx + 1].node, stopOn, calls)
         IN  IF r.stop THEN r
             ELSE ReverseWalkEdges(h, n, idx - 1, stopOn, r.calls)

\* WalkBackwards(fn): the sequence of calls fn receives
WalkBackwards(h, n, stopOn) == reverseRecursiveWalk(h, n, stopOn, <<>>).calls

RECURSIVE WalkPrefixLoop(_, _, _, _)
WalkPrefixLoop(h, n, search, stopOn) ==
    IF Len(search) = 0
    THEN recursiveWalk(h, n, stopOn, <<>>).calls
    ELSE LET c == getEdge(h[n], search[1]).node
         IN  IF c = Nil THEN <<>>
             ELSE IF HasPrefix(search, h[c[1]].prefix)
                  THEN WalkPrefixLoop(h, c[1], SliceFrom(search, Len(h[c[1]].prefix)),
                                      stopOn)
                  ELSE IF HasPrefix(h[c[1]].prefix, search)
                       THEN recursiveWalk(h, c[1], stopOn, <<>>).calls
                       ELSE <<>>

\* the sequence of calls fn receives
WalkPrefix(h, n, prefix, stopOn) == WalkPrefixLoop(h, n, prefix, stopOn)

\* ---------------------------------------------------------- forward iterator
\* An iterator is [node, stack, stackNil, expandedParents]: stack is a
\* sequence of slices of node addresses, stackNil tells a nil stack from an
\* empty one, expandedParents is used by the reverse iterator only.
Iterator(n) == [node |-> Ptr(n), stack |-> <<>>, stackNil |-> TRUE, expandedParents |-> {}]

\* the child pointers of an edge list, in order
nodesOf(edges) == [j \in 1..Len(edges) |-> edges[j].node]

RECURSIVE SeekPrefixLoop(_, _, _, _)
SeekPrefixLoop(h, n, search, watch) ==
    IF Len(search) = 0
    THEN [node |-> Ptr(n), watch |-> watch]
    ELSE LET child == getEdge(h[n], search[1]).node
         IN  IF child = Nil
             THEN [node |-> Nil, watch |-> watch]
             ELSE IF HasPrefix(search, h[child[1]].prefix)
                  THEN SeekPrefixLoop(h, child[1],
                                      SliceFrom(search, Len(h[child[1]].prefix)),
                                      nodeMutateCh(child[1]))
                  ELSE IF HasPrefix(h[child[1]].prefix, search)
                       THEN [node |-> child, watch |-> nodeMutateCh(child[1])]
                       ELSE [node |-> Nil, watch |-> nodeMutateCh(child[1])]

\* SeekPrefixWatch without the wipe of the stack
SeekPrefixWatchKeepStack(h, i, prefix) ==
    IF i.node = Nil
    THEN [i |-> i, watch |-> <<>>, fault |-> TRUE]
    ELSE LET r == SeekPrefixLoop(h, i.node[1], prefix, nodeMutateCh(i.node[1]))
         IN  [i |-> [i EXCEPT !.node = r.node], watch |-> <<r.watch>>, fault |-> FALSE]

\* i.node = nil makes `n.mutateCh` a nil dereference: fault, after the wipe
SeekPrefixWatch(h, i, prefix) ==
    IF i.node = Nil
    THEN [i |-> [i EXCEPT !.stack = <<>>, !.stackNil = TRUE], watch |-> <<>>, fault |-> TRUE]
    ELSE LET r == SeekPrefixLoop(h, i.node[1], prefix, nodeMutateCh(i.node[1]))
         IN  [i |-> [i EXCEPT !.stack = <<>>, !.stackNil = TRUE, !.node = r.node],
              watch |-> <<r.watch>>, fault |-> FALSE]

SeekPrefix(h, i, prefix) ==
    LET r == SeekPrefixWatch(h, i, prefix)
    IN  [i |-> r.i, fault |-> r.fault]

\* recurseMin leaving the siblings of the first child off the stack
RECURSIVE recurseMinNoSiblings(_, _, _)
recurseMinNoSiblings(h, stack, n) ==
    IF h[n].leaf # Nil
    THEN [stack |-> stack, node |-> Ptr(n)]
    ELSE IF Len(h[n].edges) > 0
         THEN recurseMinNoSiblings(h, stack, h[n].edges[1].node)
         ELSE [stack |-> stack, node |-> Nil]

RECURSIVE recurseMin(_, _, _)
recurseMin(h, stack, n) ==
    IF h[n].leaf # Nil
    THEN [stack |-> stack, node |-> Ptr(n)]
    ELSE LET nChildren == Len(h[n].edges)
             stack1 == IF nChildren > 1
                       THEN Append(stack, nodesOf(SliceFrom(h[n].edges, 1)))
                       ELSE stack
         IN  IF nChildren > 0
             THEN recurseMin(h, stack1, h[n].edges[1].node)
             ELSE [stack |-> stack1, node |-> Nil]

found(stack, n) == Append(stack, <<n>>)

findMin(h, stack, n) ==
    LET r == recurseMin(h, stack, n)
    IN  IF r.node # Nil THEN found(r.stack, r.node[1]) ELSE r.stack

prefixCmp(prefix, search) ==
    IF Len(prefix) < Len(search)
    THEN Compare(prefix, SliceTo(search, Len(prefix)))
    ELSE Compare(prefix, search)

\* the loop of SeekLowerBound; the result is i.stack
RECURSIVE SeekLowerBoundLoop(_, _, _, _, _)
SeekLowerBoundLoop(h, n, search0, key, stack) ==
    LET cmp == prefixCmp(h[n].prefix, search0)
    IN  IF cmp > 0 THEN findMin(h, stack, n)
        ELSE IF cmp < 0 THEN stack
        ELSE IF h[n].leaf # Nil /\ Equal(h[n].leaf[1].key, key) THEN found(stack, n)
        ELSE LET search == SliceFrom(search0, Len(h[n].prefix))
             IN  IF Len(search) = 0 THEN findMin(h, stack, n)
                 ELSE LET lb == getLowerBoundEdge(h[n], search[1])
                      IN  IF lb.node = Nil THEN stack
                          ELSE SeekLowerBoundLoop(h, lb.node[1], search, key,
                                 IF lb.idx + 1 < Len(h[n].edges)
                                 THEN Append(stack, nodesOf(SliceFrom(h[n].edges, lb.idx + 1)))
                                 ELSE stack)

\* i.node = nil makes `n.prefix` a nil dereference: fault, after the wipe
SeekLowerBound(h, i, key) ==
    IF i.node = Nil
    THEN [i |-> [i EXCEPT !.stack = <<>>, !.stackNil = TRUE], fault |-> TRUE]
    ELSE LET stack == SeekLowerBoundLoop(h, i.node[1], key, key, <<>>)
         IN  [i |-> [i EXCEPT !.stack = stack, !.stackNil = (stack = <<>>), !.node = Nil],
              fault |-> FALSE]

\* Next taking the last node of the top slice instead of the first
RECURSIVE NextLoopLastFirst(_, _)
NextLoopLastFirst(h, stack) ==
    IF Len(stack) > 0
    THEN LET n == Len(stack)
             last == stack[n]
             elem == last[Len(last)]
             stack1 == IF Len(last) > 1
                       THEN [stack EXCEPT ![n] = SliceTo(last, Len(last) - 1)]
                       ELSE SliceTo(stack, n - 1)
             stack2 == IF Len(h[elem].edges) > 0
                       THEN Append(stack1, nodesOf(h[elem].edges))
                       ELSE stack1
         IN  IF h[elem].leaf # Nil
             THEN [stack |-> stack2, ret |-> <<h[elem].leaf[1].key, h[elem].leaf[1].val>>]
             ELSE NextLoopLastFirst(h, stack2)
    ELSE [stack |-> stack, ret |-> <<>>]

\* the loop of Next: ret is nil or the (key, val) pair returned
RECURSIVE NextLoop(_, _)
NextLoop(h, stack) ==
    IF Len(stack) > 0
    THEN LET n == Len(stack)
             last == stack[n]
             elem == last[1]
             stack1 == IF Len(last) > 1
                       THEN [stack EXCEPT ![n] = SliceFrom(last, 1)]
                       ELSE SliceTo(stack, n - 1)
             stack2 == IF Len(h[elem].edges) > 0
                       THEN Append(stack1, nodesOf(h[elem].edges))
                       ELSE stack1
         IN  IF h[elem].leaf # Nil
             THEN [stack |-> stack2, ret |-> <<h[elem].leaf[1].key, h[elem].leaf[1].val>>]
             ELSE NextLoop(h, stack2)
    ELSE [stack |-> stack, ret |-> <<>>]

\* Next dropping its stack (i.stack = nil) when it returns not-found
NextResetOnMiss(h, i) ==
    LET init == i.stackNil /\ i.node # Nil
        stack0 == IF init THEN <<<<i.node[1]>>>> ELSE i.stack
        r == NextLoop(h, stack0)
    IN  [i |-> [i EXCEPT !.stack = r.stack,
                         !.stackNil = (r.ret = <<>>) \/ (i.stackNil /\ ~init)],
         ret |-> r.ret]

Next(h, i) ==
    LET init == i.stackNil /\ i.node # Nil
        stack0 == IF init THEN <<<<i.node[1]>>>> ELSE i.stack
        r == NextLoop(h, stack0)
    IN  [i |-> [i EXCEPT !.stack = r.stack, !.stackNil = i.stackNil /\ ~init],
         ret |-> r.ret]

\* ---------------------------------------------------------- reverse iterator
NewReverseIterator(n) == Iterator(n)

\* n.children of the reverse iterator is the node's sorted edge list
children(n) == nodesOf(n.edges)

\* SeekReverseLowerBound pushing a node that has a leaf and children
\* without marking it expanded
RECURSIVE SeekReverseLowerBoundLoopUnmarked(_, _, _, _, _, _)
SeekReverseLowerBoundLoopUnmarked(h, n, search0, key, stack, expanded) ==
    LET cmp == prefixCmp(h[n].prefix, search0)
        exact == isLeaf(h[n]) /\ Equal(h[n].leaf[1].key, key)
        bare == isLeaf(h[n]) /\ Len(children(h[n])) = 0
        stack1 == IF isLeaf(h[n]) THEN Append(stack, <<n>>) ELSE stack
        search == SliceFrom(search0, Len(h[n].prefix))
    IN  IF cmp < 0 THEN [stack |-> Append(stack, <<n>>), expandedParents |-> expanded]
        ELSE IF cmp > 0 THEN [stack |-> stack, expandedParents |-> expanded]
        ELSE IF exact \/ bare
             THEN [stack |-> Append(stack, <<n>>), expandedParents |-> expanded \cup {n}]
        ELSE IF Len(search) = 0 THEN [stack |-> stack1, expandedParents |-> expanded]
        ELSE LET lb == getLowerBoundEdge(h[n], search[1])
                 idx == IF lb.idx = -1 THEN Len(children(h[n])) ELSE lb.idx
                 stack2 == IF idx > 0
                           THEN Append(stack1, SliceTo(children(h[n]), idx))
                           ELSE stack1
             IN  IF lb.node = Nil
                 THEN [stack |-> stack2, expandedParents |-> expanded]
                 ELSE SeekReverseLowerBoundLoopUnmarked(h, lb.node[1], search, key, stack2,
                                                        expanded)

\* the loop of SeekReverseLowerBound; the result is the stack and the
\* expandedParents set
RECURSIVE SeekReverseLowerBoundLoop(_, _, _, _, _, _)
SeekReverseLowerBoundLoop(h, n, search0, key, stack, expanded) ==
    LET cmp == prefixCmp(h[n].prefix, search0)
        exact == isLeaf(h[n]) /\ Equal(h[n].leaf[1].key, key)
        bare == isLeaf(h[n]) /\ Len(children(h[n])) = 0
        stack1 == IF isLeaf(h[n]) THEN Append(stack, <<n>>) ELSE stack
        expanded1 == IF isLeaf(h[n]) THEN expanded \cup {n} ELSE expanded
        search == SliceFrom(search0, Len(h[n].prefix))
    IN  IF cmp < 0 THEN [stack |-> Append(stack, <<n>>), expandedParents |-> expanded]
        ELSE IF cmp > 0 THEN [stack |-> stack, expandedParents |-> expanded]
        ELSE IF exact \/ bare
             THEN [stack |-> Append(stack, <<n>>), expandedParents |-> expanded \cup {n}]
        ELSE IF Len(search) = 0 THEN [stack |-> stack1, expandedParents |-> expanded1]
        ELSE LET lb == getLowerBoundEdge(h[n], search[1])
                 idx == IF lb.idx = -1 THEN Len(children(h[n])) ELSE lb.idx
                 stack2 == IF idx > 0
                           THEN Append(stack1, SliceTo(children(h[n]), idx))
                           ELSE stack1
             IN  IF lb.node = Nil
                 THEN [stack |-> stack2, expandedParents |-> expanded1]
                 ELSE SeekReverseLowerBoundLoop(h, lb.node[1], search, key, stack2,
                                                expanded1)

\* ri.i.node = nil makes `n.prefix` a nil dereference: fault, after the wipe
SeekReverseLowerBound(h, ri, key) ==
    IF ri.node = Nil
    THEN [i |-> [ri EXCEPT !.stack = <<>>, !.stackNil = TRUE], fault |-> TRUE]
    ELSE LET r == SeekReverseLowerBoundLoop(h, ri.node[1], key, key, <<>>,
                                            ri.expandedParents)
         IN  [i |-> [ri EXCEPT !.stack = r.stack, !.stackNil = (r.stack = <<>>),
                               !.node = Nil, !.expandedParents = r.expandedParents],
              fault |-> FALSE]

\* Previous returning a node's leaf when it pushes the node's children
RECURSIVE PreviousLoopLeafFirst(_, _, _)
PreviousLoopLeafFirst(h, stack, expanded) ==
    IF Len(stack) > 0
    THEN LET n == Len(stack)
             top == stack[n]
             m == Len(top)
             elem == top[m]
             stack1 == IF m > 1
                       THEN [stack EXCEPT ![n] = SliceTo(top, m - 1)]
                       ELSE SliceTo(stack, n - 1)
             stack2 == IF Len(children(h[elem])) > 0
                       THEN Append(stack1, children(h[elem]))
                       ELSE stack1
         IN  IF h[elem].leaf # Nil
             THEN [stack |-> stack2, expandedParents |-> expanded,
                   ret |-> <<h[elem].leaf[1].key, h[elem].leaf[1].val>>]
             ELSE PreviousLoopLeafFirst(h, stack2, expanded)
    ELSE [stack |-> stack, expandedParents |-> expanded, ret |-> <<>>]

\* the loop of Previous
RECURSIVE PreviousLoop(_, _, _)
PreviousLoop(h, stack, expanded) ==
    IF Len(stack) > 0
    THEN LET n == Len(stack)
             top == stack[n]
             m == Len(top)
             elem == top[m]
             stack1 == IF m > 1
                       THEN [stack EXCEPT ![n] = SliceTo(top, m - 1)]
                       ELSE SliceTo(stack, n - 1)
             alreadyExpanded == elem \in expanded
         IN  IF Len(children(h[elem])) > 0 /\ ~alreadyExpanded
             THEN PreviousLoop(h, Append(Append(stack1, <<elem>>), children(h[elem])),
                               expanded \cup {elem})
             ELSE LET expanded1 == IF alreadyExpanded THEN expanded \ {elem} ELSE expanded
                  IN  IF h[elem].leaf # Nil
                      THEN [stack |-> stack1, expandedParents |-> expanded1,
                            ret |-> <<h[elem].leaf[1].key, h[elem].leaf[1].val>>]
                      ELSE PreviousLoop(h, stack1, expanded1)
    ELSE [stack |-> stack, expandedParents |-> expanded, ret |-> <<>>]

Previous(h, ri) ==
    LET init == ri.stackNil /\ ri.node # Nil
        stack0 == IF init THEN <<<<ri.node[1]>>>> ELSE ri.stack
        r == PreviousLoop(h, stack0, ri.expandedParents)
    IN  [i |-> [ri EXCEPT !.stack = r.stack, !.stackNil = ri.stackNil /\ ~init,
                          !.expandedParents = r.expandedParents],
         ret |-> r.ret]

\* ------------------------------------------------------------------ insert
\* number of leading bytes k1 and k2 share
RECURSIVE longestPrefix(_, _)
longestPrefix(k1, k2) ==
    IF k1 # <<>> /\ k2 # <<>> /\ Head(k1) = Head(k2)
    THEN 1 + longestPrefix(Tail(k1), Tail(k2))
    ELSE 0

\* Insert of key k with value v below node n (whose address is its path),
\* search being the part of k not yet consumed.
RECURSIVE insert(_, _, _, _, _)
insert(h, n, search, k, v) ==
    IF Len(search) = 0
    THEN [h EXCEPT ![n].leaf = <<leafNode(k, v)>>]
    ELSE LET e == getEdge(h[n], search[1])
         IN  IF e.node = Nil
             THEN (k :> Node(<<leafNode(k, v)>>, search, <<>>))
                  @@ [h EXCEPT ![n] = addEdge(h[n], edge(search[1], k))]
             ELSE LET child == e.node[1]
                      commonPrefix == longestPrefix(search, h[child].prefix)
                  IN  IF commonPrefix = Len(h[child].prefix)
                      THEN insert(h, child, SliceFrom(search, commonPrefix), k, v)
                      ELSE LET splitAddr == n \o SliceTo(search, commonPrefix)
                               rest == SliceFrom(search, commonPrefix)
                               split0 == addEdge(Node(Nil, SliceTo(search, commonPrefix), <<>>),
                                                 edge(h[child].prefix[commonPrefix + 1], child))
                               split1 == IF Len(rest) = 0
                                         THEN [split0 EXCEPT !.leaf = <<leafNode(k, v)>>]
                                         ELSE addEdge(split0, edge(rest[1], k))
                               h1 == [h EXCEPT
                                        ![n] = replaceEdge(h[n], edge(search[1], splitAddr)).n,
                                        ![child].prefix = SliceFrom(h[child].prefix, commonPrefix)]
                               h2 == (splitAddr :> split1) @@ h1
                           IN  IF Len(rest) = 0 THEN h2
                               ELSE (k :> Node(<<leafNode(k, v)>>, rest, <<>>)) @@ h2

\* ------------------------------------------------------------------- state
VARIABLES
    nodes,      \* the heap: node address -> Node
    kv,         \* the key/value map the tree stands for (history)
    call,       \* the last lookup made on the root and what it returned
    kind,       \* "none", "fwd" (Iterator) or "rev" (ReverseIterator)
    iter,       \* the iterator's fields
    seek,       \* the last seek made on the iterator (op "none" if none), with
                \* the iterator's condition when it was made
    nseek,      \* number of seeks made on the iterator
    out,        \* the (key, val) pairs yielded since creation or the last seek
    exhausted,  \* the last Next/Previous returned not-found
    fault,      \* a call hit a nil dereference
    again,      \* Next/Previous was called after it had returned not-found,
                \* with no seek in between
    mutateCh,   \* the mutateCh slot of one node and of one leaf
    readers,    \* each reader's position in getMutateCh and its locals
    returned,   \* what each reader's completed getMutateCh calls returned,
                \* and at which statement
    installed,  \* per slot, the channels a CompareAndSwap stored (history)
    arrays,     \* the backing arrays of the slices of two node objects
    objs,       \* the node object n and its clone nn: fields as slice headers
    last,       \* the last operation on n or nn and the edges it started from
    snap,       \* what n held when it was cloned
    nops        \* number of operations made on the clone

treeVars == <<nodes, kv, call, kind, iter, seek, nseek, out, exhausted, fault, again>>
chVars == <<mutateCh, readers, returned, installed>>
memVars == <<arrays, objs, last, snap, nops>>
vars == <<treeVars, chVars, memVars>>

\* The values of an atomic.Pointer[chan struct{}]: the nil pointer, the
\* pointer a setMutateCh(nil) stored (it points to a nil channel), and the
\* address of the newCh local of reader r's call c, holding the channel made
\* by that call.  A channel is <<>> (nil) or <<r, c>>.
NilPtr == [nil |-> TRUE, ch |-> <<>>]
NilChPtr == [nil |-> FALSE, ch |-> <<>>]
newCh(r, c) == <<r, c>>
AddrOf(ch) == [nil |-> FALSE, ch |-> ch]
Owners == {"node", "leaf"}
Readers == 1..MaxReaders
CallNos == {1, 2}
Idle == [pc |-> "idle", on |-> "node", ch |-> NilPtr, calls |-> 0]

NoCall == [op |-> "none", arg |-> <<>>, stopOn |-> {}, ret |-> <<>>]
NoIter == [node |-> Nil, stack |-> <<>>, stackNil |-> TRUE, expandedParents |-> {}]
NoSeek == [op |-> "none", key |-> <<>>, before |-> "fresh", left |-> 0]

\* ---------------------------------------------- node objects in memory
\* A slice is a header [arr, len] over a backing array; arr = "nil" is the
\* nil slice and the capacity is the length of the backing array.
\* arrays[a] is backing array a: edge cells or prefix bytes.  An array is
\* named after the field it was allocated for; a field's old array, which
\* nothing refers to any more, gives way to the new one.
NilSlice == [arr |-> "nil", len |-> 0]
Slots == {"nil", "n.prefix", "n.edges", "nn.prefix", "nn.edges"}
NoArrays == [a \in Slots |-> <<>>]
ZeroEdge == edge(0, Nil)
Labels == {1, 2, 3}
Children == {<<1>>, <<2>>}
cap(arrs, sl) == Len(arrs[sl.arr])
Visible(arrs, sl) == SubSeq(arrs[sl.arr], 1, sl.len)

\* the node a node object stands for: its leaf, prefix bytes and edge list
View(arrs, o) == Node(o.leaf, Visible(arrs, o.prefix), Visible(arrs, o.edges))

\* cells written over the front of backing array a
WriteCells(arrs, a, cells) ==
    [arrs EXCEPT ![a] = cells \o SubSeq(@, Len(cells) + 1, Len(@))]

\* make([]T, num) for field a, then the copy: a new backing array of
\* exactly the given cells
make(arrs, a, cells) ==
    [arrays |-> [arrs EXCEPT ![a] = cells], sl |-> [arr |-> a, len |-> Len(cells)]]

\* append(sl, e) assigned to field a: in place when capacity is left, else
\* into a new backing array of doubled capacity
append(arrs, a, sl, e) ==
    IF sl.len < cap(arrs, sl)
    THEN [arrays |-> [arrs EXCEPT ![sl.arr][sl.len + 1] = e],
          sl |-> [sl EXCEPT !.len = @ + 1]]
    ELSE LET newcap == IF sl.len = 0 THEN 1 ELSE 2 * sl.len
             grown == Visible(arrs, sl) \o <<e>>
                         \o [j \in 1..(newcap - sl.len - 1) |-> ZeroEdge]
         IN  [arrays |-> [arrs EXCEPT ![a] = grown],
              sl |-> [arr |-> a, len |-> sl.len + 1]]

\* n.addEdge(e) on node object o: the append, then the shift and the store
\* of e, all in the backing array the append left n.edges in
AddEdgeTo(arrs, o, e) ==
    LET ap == append(arrs, o.name \o ".edges", o.edges, e)
    IN  [arrays |-> WriteCells(ap.arrays, ap.sl.arr, addEdge(View(arrs, o), e).edges),
         o |-> [o EXCEPT !.edges = ap.sl]]

\* n.replaceEdge(e) on node object o: the child is stored in place
ReplaceEdgeIn(arrs, o, e) ==
    LET r == replaceEdge(View(arrs, o), e)
    IN  IF r.ok
        THEN [ok |-> TRUE, arrays |-> WriteCells(arrs, o.edges.arr, r.n.edges)]
        ELSE [ok |-> FALSE, arrays |-> arrs]

\* n.delEdge(label) on node object o: the shift in place, the last cell
\* zeroed, the slice shortened by one
DelEdgeFrom(arrs, o, label) ==
    LET left == delEdge(View(arrs, o), label).edges
    IN  IF Len(left) = o.edges.len
        THEN [arrays |-> arrs, o |-> o]
        ELSE [arrays |-> WriteCells(arrs, o.edges.arr, left \o <<ZeroEdge>>),
              o |-> [o EXCEPT !.edges = [@ EXCEPT !.len = @ - 1]]]

\* getMutateCh with no other caller: the channel in the slot, or a new one
\* (fresh) stored in it
getMutateCh(slot, fresh) ==
    IF ~slot.nil /\ slot.ch # <<>>
    THEN [slot |-> slot, ch |-> slot.ch]
    ELSE [slot |-> AddrOf(fresh), ch |-> fresh]

\* a clone whose edges slice is the original's
cloneSharingEdges(arrs, n, fresh) ==
    LET g == getMutateCh(n.mutateCh, fresh)
        p == IF n.prefix.arr # "nil"
             THEN make(arrs, "nn.prefix", Visible(arrs, n.prefix))
             ELSE [arrays |-> arrs, sl |-> NilSlice]
    IN  [arrays |-> p.arrays,
         n |-> [n EXCEPT !.mutateCh = g.slot],
         nn |-> [name |-> "nn", live |-> TRUE, leaf |-> n.leaf, prefix |-> p.sl, edges |-> n.edges,
                 mutateCh |-> AddrOf(g.ch)]]

\* n.clone(false): the watch signal is the original's (allocated now if n
\* had none), the prefix is copied when non-nil, the leaf pointer is shared,
\* the edges are copied into a new array of exactly their number when there
\* are any.  The reference counts are left out.
clone(arrs, n, fresh) ==
    LET g == getMutateCh(n.mutateCh, fresh)
        p == IF n.prefix.arr # "nil"
             THEN make(arrs, "nn.prefix", Visible(arrs, n.prefix))
             ELSE [arrays |-> arrs, sl |-> NilSlice]
        es == IF n.edges.len # 0
              THEN make(p.arrays, "nn.edges", Visible(arrs, n.edges))
              ELSE [arrays |-> p.arrays, sl |-> NilSlice]
    IN  [arrays |-> es.arrays,
         n |-> [n EXCEPT !.mutateCh = g.slot],
         nn |-> [name |-> "nn", live |-> TRUE, leaf |-> n.leaf, prefix |-> p.sl, edges |-> es.sl,
                 mutateCh |-> AddrOf(g.ch)]]

Dead(name) == [name |-> name, live |-> FALSE, leaf |-> Nil, prefix |-> NilSlice,
               edges |-> NilSlice, mutateCh |-> NilPtr]
NoOp == [op |-> "none", on |-> "n", label |-> 0, node |-> Nil, before |-> <<>>,
         panicked |-> FALSE]

\* New(): the root is a node with empty prefix, no leaf and no edges
InitTree ==
    /\ nodes = (RootAddr :> Node(Nil, <<>>, <<>>))
    /\ kv = <<>>
    /\ call = NoCall
    /\ kind = "none"
    /\ iter = NoIter
    /\ seek = NoSeek
    /\ nseek = 0
    /\ out = <<>>
    /\ exhausted = FALSE
    /\ fault = FALSE
    /\ again = FALSE

\* no reader is in getMutateCh
InitReaders ==
    /\ readers = [r \in Readers |-> Idle]
    /\ returned = [r \in Readers |-> <<>>]
    /\ installed = [o \in Owners |-> <<>>]

\* no operation was made on the node objects
InitOps ==
    /\ last = NoOp
    /\ snap = Node(Nil, <<>>, <<>>)
    /\ nops = 0

Init ==
    /\ InitTree
    /\ mutateCh = [o \in Owners |-> NilPtr]
    /\ InitReaders
    /\ arrays = NoArrays
    /\ objs = [o \in {"n", "nn"} |-> Dead(o)]
    /\ InitOps

iterVars == <<kind, iter, seek, nseek, out, exhausted, fault, again>>

Insert(k, v) ==
    /\ kind = "none"
    /\ call = NoCall
    /\ k \in DOMAIN kv \/ Cardinality(DOMAIN kv) < MaxKeys
    /\ nodes' = insert(nodes, RootAddr, k, k, v)
    /\ kv' = (k :> v) @@ kv
    /\ call' = NoCall
    /\ UNCHANGED iterVars
    /\ UNCHANGED <<chVars, memVars>>

Lookup(op, arg, stopOn, ret) ==
    /\ kind = "none"
    /\ call = NoCall
    /\ call' = [op |-> op, arg |-> arg, stopOn |-> stopOn, ret |-> ret]
    /\ UNCHANGED <<nodes, kv>>
    /\ UNCHANGED iterVars
    /\ UNCHANGED <<chVars, memVars>>

CallGet(k) == Lookup("Get", k, {}, Get(nodes, RootAddr, k))

CallLongestPrefix(k) == Lookup("LongestPrefix", k, {}, LongestPrefix(nodes, RootAddr, k))

CallMinimum == Lookup("Minimum", <<>>, {}, Minimum(nodes, RootAddr))

CallMaximum == Lookup("Maximum", <<>>, {}, Maximum(nodes, RootAddr))

\* the callbacks tried: never true, true on one key, true on every key
StopSets == {{}} \cup {{k} : k \in Keys} \cup {Keys}

CallWalkPrefix(p, stopOn) ==
    Lookup("WalkPrefix", p, stopOn, WalkPrefix(nodes, RootAddr, p, stopOn))

CallWalk(stopOn) == Lookup("Walk", <<>>, stopOn, Walk(nodes, RootAddr, stopOn))

CallWalkBackwards(stopOn) ==
    Lookup("WalkBackwards", <<>>, stopOn, WalkBackwards(nodes, RootAddr, stopOn))

CallGetWatch(k) == Lookup("GetWatch", k, {}, GetWatch(nodes, RootAddr, k))

\* the lookup has returned and its result is dropped
Return ==
    /\ call # NoCall
    /\ call' = NoCall
    /\ UNCHANGED <<nodes, kv>>
    /\ UNCHANGED iterVars
    /\ UNCHANGED <<chVars, memVars>>

NewIter(k) ==
    /\ ~fault
    /\ call = NoCall
    /\ kind = "none"
    /\ kind' = k
    /\ iter' = Iterator(RootAddr)
    /\ seek' = NoSeek
    /\ nseek' = 0
    /\ out' = <<>>
    /\ exhausted' = FALSE
    /\ again' = FALSE
    /\ call' = NoCall
    /\ UNCHANGED <<nodes, kv, fault>>
    /\ UNCHANGED <<chVars, memVars>>

CallIterator == NewIter("fwd")

CallReverseIterator == NewIter("rev")

\* the effect of a seek call that returned r = [i, fault]; seek.before tells
\* whether Next/Previous had not been called since creation or the seek
\* before ("fresh"), had last returned a key ("partial") or had returned
\* not-found ("drained"), seek.left how many slices the stack held
Seeked(op, key, r) ==
    /\ ~fault
    /\ nseek < MaxSeeks
    /\ iter' = r.i
    /\ fault' = r.fault
    /\ seek' = [op |-> op, key |-> key,
                before |-> IF exhausted THEN "drained"
                           ELSE IF out # <<>> THEN "partial" ELSE "fresh",
                left |-> Len(iter.stack)]
    /\ nseek' = nseek + 1
    /\ out' = <<>>
    /\ exhausted' = FALSE
    /\ again' = FALSE
    /\ UNCHANGED <<nodes, kv, call, kind>>
    /\ UNCHANGED <<chVars, memVars>>

CallSeekPrefix(p) ==
    /\ kind = "fwd"
    /\ Seeked("SeekPrefix", p, SeekPrefix(nodes, iter, p))

CallSeekLowerBound(k) ==
    /\ kind = "fwd"
    /\ Seeked("SeekLowerBound", k, SeekLowerBound(nodes, iter, k))

CallRevSeekPrefix(p) ==
    /\ kind = "rev"
    /\ Seeked("SeekPrefix", p, SeekPrefix(nodes, iter, p))

CallSeekReverseLowerBound(k) ==
    /\ kind = "rev"
    /\ Seeked("SeekReverseLowerBound", k, SeekReverseLowerBound(nodes, iter, k))

\* a Next/Previous that consumes the entry it yields: the leaf is unlinked
\* from its node
SteppedConsuming(r) ==
    /\ ~fault
    /\ iter' = r.i
    /\ out' = IF r.ret = <<>> THEN out ELSE Append(out, r.ret)
    /\ exhausted' = (r.ret = <<>>)
    /\ again' = (again \/ exhausted)
    /\ nodes' = IF r.ret = <<>> THEN nodes
                ELSE [nodes EXCEPT ![r.ret[1]].leaf = Nil]
    /\ UNCHANGED <<kv, call, kind, seek, nseek, fault>>
    /\ UNCHANGED <<chVars, memVars>>

\* the effect of a Next/Previous call that returned r = [i, ret]
Stepped(r) ==
    /\ ~fault
    /\ iter' = r.i
    /\ out' = IF r.ret = <<>> THEN out ELSE Append(out, r.ret)
    /\ exhausted' = (r.ret = <<>>)
    /\ again' = (again \/ exhausted)
    /\ UNCHANGED <<nodes, kv, call, kind, seek, nseek, fault>>
    /\ UNCHANGED <<chVars, memVars>>

CallNext ==
    /\ kind = "fwd"
    /\ Stepped(Next(nodes, iter))

CallPrevious ==
    /\ kind = "rev"
    /\ Stepped(Previous(nodes, iter))

Next_ ==
    \/ \E k \in Keys : Insert(k, ValOf(k))
    \/ \E k \in Keys : CallGet(k)
    \/ \E k \in Keys : CallLongestPrefix(k)
    \/ CallMinimum
    \/ CallMaximum
    \/ \E p \in Keys, stopOn \in StopSets : CallWalkPrefix(p, stopOn)
    \/ \E stopOn \in StopSets : CallWalk(stopOn)
    \/ \E stopOn \in StopSets : CallWalkBackwards(stopOn)
    \/ \E k \in Keys : CallGetWatch(k)
    \/ Return
    \/ CallIterator
    \/ CallReverseIterator
    \/ \E p \in Keys : CallSeekPrefix(p)
    \/ \E k \in Keys : CallSeekLowerBound(k)
    \/ \E p \in Keys : CallRevSeekPrefix(p)
    \/ \E k \in Keys : CallSeekReverseLowerBound(k)
    \/ CallNext
    \/ CallPrevious

Spec == Init /\ [][Next_]_vars

\* ------------------------------------------------ getMutateCh, step by step
\* Readers call getMutateCh on the same node (and on the same leaf: the two
\* functions are the same code on the owner's own slot).  Each atomic
\* operation is one step.

\* ch := n.mutateCh.Load(); return *ch when ch and *ch are non-nil
Load(r, o) ==
    /\ readers[r].pc = "idle"
    /\ readers[r].calls + 1 \in CallNos
    /\ LET ch == mutateCh[o]
           c == readers[r].calls + 1
       IN  IF ~ch.nil /\ ch.ch # <<>>
           THEN /\ readers' = [readers EXCEPT ![r] = [Idle EXCEPT !.calls = c]]
                /\ returned' = [returned EXCEPT ![r] = Append(@, [on |-> o, ch |-> ch.ch, by |-> "Load"])]
           ELSE /\ readers' = [readers EXCEPT ![r] =
                                  [pc |-> "cas", on |-> o, ch |-> ch, calls |-> c]]
                /\ UNCHANGED returned
    /\ UNCHANGED <<mutateCh, installed>>
    /\ UNCHANGED <<treeVars, memVars>>

\* the store of a swap that ignores the slot's current value
StoreUnconditionally(r) ==
    /\ readers[r].pc = "cas"
    /\ LET o == readers[r].on
           new == newCh(r, readers[r].calls)
       IN  /\ mutateCh' = [mutateCh EXCEPT ![o] = AddrOf(new)]
           /\ installed' = [installed EXCEPT ![o] = Append(@, new)]
           /\ returned' = [returned EXCEPT ![r] =
                    Append(@, [on |-> o, ch |-> new, by |-> "CompareAndSwap"])]
           /\ readers' = [readers EXCEPT ![r] = [Idle EXCEPT !.calls = readers[r].calls]]
    /\ UNCHANGED <<treeVars, memVars>>

\* newCh := make(chan struct{}); swapped := n.mutateCh.CompareAndSwap(ch, &newCh);
\* return newCh when swapped
CompareAndSwap(r) ==
    /\ readers[r].pc = "cas"
    /\ LET o == readers[r].on
           new == newCh(r, readers[r].calls)
       IN  IF mutateCh[o] = readers[r].ch
           THEN /\ mutateCh' = [mutateCh EXCEPT ![o] = AddrOf(new)]
                /\ installed' = [installed EXCEPT ![o] = Append(@, new)]
                /\ returned' = [returned EXCEPT ![r] =
                    Append(@, [on |-> o, ch |-> new, by |-> "CompareAndSwap"])]
                /\ readers' = [readers EXCEPT ![r] = [Idle EXCEPT !.calls = readers[r].calls]]
           ELSE /\ readers' = [readers EXCEPT ![r].pc = "reload"]
                /\ UNCHANGED <<mutateCh, installed, returned>>
    /\ UNCHANGED <<treeVars, memVars>>

\* return *n.mutateCh.Load() after a lost race
Reload(r) ==
    /\ readers[r].pc = "reload"
    /\ returned' = [returned EXCEPT ![r] =
                       Append(@, [on |-> readers[r].on, ch |-> mutateCh[readers[r].on].ch,
                                  by |-> "Reload"])]
    /\ readers' = [readers EXCEPT ![r] = [Idle EXCEPT !.calls = readers[r].calls]]
    /\ UNCHANGED <<mutateCh, installed>>
    /\ UNCHANGED <<treeVars, memVars>>

\* a node and a leaf without a watch signal: the slot is nil or holds a
\* pointer to a nil channel
InitCh ==
    /\ InitTree
    /\ mutateCh \in [Owners -> {NilPtr, NilChPtr}]
    /\ InitReaders
    /\ arrays = NoArrays
    /\ objs = [o \in {"n", "nn"} |-> Dead(o)]
    /\ InitOps

NextCh ==
    \/ \E r \in Readers, o \in Owners : Load(r, o)
    \/ \E r \in Readers : CompareAndSwap(r)
    \/ \E r \in Readers : Reload(r)

SpecCh == InitCh /\ [][NextCh]_vars

\* ------------------------------------------- edge operations and clone
\* A node object n is built with addEdge, replaceEdge and delEdge, then
\* cloned; from then on the operations are made on the clone nn, as a
\* transaction does with the nodes of its write set.
Target == IF objs["nn"].live THEN "nn" ELSE "n"

HasLabel(edges, l) == \E j \in 1..Len(edges) : edges[j].label = l

\* the operation is recorded; the operations on the clone are counted
Did(op, on, l, c, panicked) ==
    /\ on = "nn" => nops < MaxOps
    /\ nops' = IF on = "nn" THEN nops + 1 ELSE nops
    /\ last' = [op |-> op, on |-> on, label |-> l, node |-> c,
                before |-> Visible(arrays, objs[on].edges), panicked |-> panicked]

\* addEdge with a label the node does not have
CallAddEdge(l, c) ==
    /\ ~HasLabel(Visible(arrays, objs[Target].edges), l)
    /\ LET r == AddEdgeTo(arrays, objs[Target], edge(l, c))
       IN  /\ arrays' = r.arrays
           /\ objs' = [objs EXCEPT ![Target] = r.o]
    /\ Did("addEdge", Target, l, c, FALSE)
    /\ UNCHANGED snap
    /\ UNCHANGED <<treeVars, chVars>>

\* replaceEdge with any label: it panics when the node has no such edge
CallReplaceEdge(l, c) ==
    /\ LET r == ReplaceEdgeIn(arrays, objs[Target], edge(l, c))
       IN  /\ arrays' = r.arrays
           /\ Did("replaceEdge", Target, l, c, ~r.ok)
    /\ UNCHANGED <<objs, snap>>
    /\ UNCHANGED <<treeVars, chVars>>

CallDelEdge(l) ==
    /\ LET r == DelEdgeFrom(arrays, objs[Target], l)
       IN  /\ arrays' = r.arrays
           /\ objs' = [objs EXCEPT ![Target] = r.o]
    /\ Did("delEdge", Target, l, Nil, FALSE)
    /\ UNCHANGED snap
    /\ UNCHANGED <<treeVars, chVars>>

\* nn := n.clone(false)
CallClone ==
    /\ ~objs["nn"].live
    /\ LET r == clone(arrays, objs["n"], newCh(0, 1))
       IN  /\ arrays' = r.arrays
           /\ objs' = [n |-> r.n, nn |-> r.nn]
    /\ Did("clone", "n", 0, Nil, FALSE)
    /\ snap' = View(arrays, objs["n"])
    /\ UNCHANGED <<treeVars, chVars>>

\* the owner of the clone overwrites a byte of its prefix in place
SetPrefixByte(i, b) ==
    /\ objs["nn"].live
    /\ i \in 1..objs["nn"].prefix.len
    /\ arrays' = [arrays EXCEPT ![objs["nn"].prefix.arr][i] = b]
    /\ Did("prefix", "nn", 0, Nil, FALSE)
    /\ UNCHANGED <<objs, snap>>
    /\ UNCHANGED <<treeVars, chVars>>

\* the owner of the clone gives it another leaf record
SetLeaf(l) ==
    /\ objs["nn"].live
    /\ objs' = [objs EXCEPT !["nn"].leaf = l]
    /\ Did("leaf", "nn", 0, Nil, FALSE)
    /\ UNCHANGED <<arrays, snap>>
    /\ UNCHANGED <<treeVars, chVars>>

\* n starts bare or with a prefix, a leaf and a watch signal, and with no edges
InitNode ==
    /\ InitTree
    /\ mutateCh = [o \in Owners |-> NilPtr]
    /\ InitReaders
    /\ arrays = [NoArrays EXCEPT !["n.prefix"] = <<1>>]
    /\ \E bare \in BOOLEAN :
          objs = [n |-> [name |-> "n", live |-> TRUE,
                         leaf |-> IF bare THEN Nil ELSE <<1>>,
                         prefix |-> IF bare THEN NilSlice
                                    ELSE [arr |-> "n.prefix", len |-> 1],
                         edges |-> NilSlice,
                         mutateCh |-> IF bare THEN NilPtr ELSE AddrOf(newCh(0, 0))],
                  nn |-> Dead("nn")]
    /\ InitOps

NextNode ==
    \/ \E l \in Labels, c \in Children : CallAddEdge(l, c)
    \/ \E l \in Labels, c \in Children : CallReplaceEdge(l, c)
    \/ \E l \in Labels : CallDelEdge(l)
    \/ CallClone
    \/ \E b \in Bytes : SetPrefixByte(1, b)
    \/ SetLeaf(<<2>>)

SpecNode == InitNode /\ [][NextNode]_vars

\* The invariants of the data model: edge labels strictly ascending, each
\* label the first byte of the child's non-empty prefix, a node's address
\* its parent's address followed by its prefix, a leaf's key its node's
\* address, no node other than the root without a leaf and with fewer than
\* two edges, and the leaves exactly the stored keys.
WellFormed ==
    /\ RootAddr \in DOMAIN nodes /\ nodes[RootAddr].prefix = <<>>
    /\ \A a \in DOMAIN nodes :
          LET n == nodes[a]
          IN  /\ \A j \in 1..Len(n.edges) :
                    /\ j > 1 => n.edges[j - 1].label < n.edges[j].label
                    /\ n.edges[j].node \in DOMAIN nodes
                    /\ nodes[n.edges[j].node].prefix # <<>>
                    /\ nodes[n.edges[j].node].prefix[1] = n.edges[j].label
                    /\ n.edges[j].node = a \o nodes[n.edges[j].node].prefix
              /\ isLeaf(n) => n.leaf[1].key = a /\ a \in DOMAIN kv /\ n.leaf[1].val = kv[a]
              /\ a # RootAddr => isLeaf(n) \/ Len(n.edges) >= 2
              /\ a # RootAddr =>
                    \E b \in DOMAIN nodes, j \in 1..Len(a) :
                        /\ b = SubSeq(a, 1, j - 1)
                        /\ \E m \in 1..Len(nodes[b].edges) : nodes[b].edges[m].node = a
    /\ \A k \in DOMAIN kv : k \in DOMAIN nodes /\ isLeaf(nodes[k])

\* ------------------------------------------------------------- properties
\* What the claims speak of, stated without the operators of the model.
Stored == DOMAIN kv

IsPrefix(p, k) == Len(p) <= Len(k) /\ \A j \in 1..Len(p) : p[j] = k[j]

\* unsigned-lexicographic byte order
LexLess(a, b) ==
    \E j \in 1..(Len(a) + 1) :
        /\ \A m \in 1..(j - 1) : m <= Len(b) /\ a[m] = b[m]
        /\ \/ j = Len(a) + 1 /\ j <= Len(b)
           \/ j <= Len(a) /\ j <= Len(b) /\ a[j] < b[j]

LexLeq(a, b) == a = b \/ LexLess(a, b)

RECURSIVE Ascending(_)
Ascending(S) ==
    IF S = {} THEN <<>>
    ELSE LET least == CHOOSE x \in S : \A y \in S : LexLeq(x, y)
         IN  <<least>> \o Ascending(S \ {least})

Reverse(s) == [j \in 1..Len(s) |-> s[Len(s) + 1 - j]]

Descending(S) == Reverse(Ascending(S))

KeysOf(pairs) == [j \in 1..Len(pairs) |-> pairs[j][1]]

StartsSeq(s, t) == Len(s) <= Len(t) /\ s = SubSeq(t, 1, Len(s))

\* the keys yielded so far are the first of `expected`, and all of it once
\* Next/Previous has reported not-found
Yields(expected) ==
    /\ StartsSeq(KeysOf(out), expected)
    /\ exhausted => KeysOf(out) = expected

\* a stored key lies on a node that has stored keys below it
InternalKey == \E a \in Stored, b \in Stored : a # b /\ IsPrefix(a, b)

\* p is a strict prefix of a stored key and ends inside an edge label
EndsInsideEdge(p) ==
    /\ p \notin DOMAIN nodes
    /\ \E k \in Stored : IsPrefix(p, k)

\* C1: Get(k) on the root returns the value stored for k when k is stored,
\* and not-found (no value, false) when it is not.
C1_GetReturnsStored ==
    call.op = "Get" =>
        IF call.arg \in Stored
        THEN call.ret = [val |-> <<kv[call.arg]>>, ok |-> TRUE]
        ELSE call.ret = [val |-> <<>>, ok |-> FALSE]

C1_Witness ==
    /\ call.op = "Get"
    /\ call.arg \notin Stored
    /\ EndsInsideEdge(call.arg)
    /\ ~call.ret.ok
    /\ Cardinality(Stored) >= 2

\* C2: Next on a fresh forward iterator at the root, repeated until
\* not-found, yields every stored key once, in strictly ascending order.
C2_NextAscending ==
    (kind = "fwd" /\ nseek = 0) => Yields(Ascending(Stored))

C2_Witness ==
    /\ kind = "fwd" /\ nseek = 0
    /\ exhausted
    /\ Len(out) >= 3
    /\ InternalKey

\* the keys a fresh forward iterator at the root yields until not-found
RECURSIVE DrainNext(_, _)
DrainNext(h, i) ==
    LET r == Next(h, i)
    IN  IF r.ret = <<>> THEN <<>> ELSE <<r.ret[1]>> \o DrainNext(h, r.i)

\* C3: Previous on a fresh reverse iterator at the root, repeated until
\* not-found, yields the reverse of what a fresh forward iterator yields:
\* every stored key once, largest first.
C3_PreviousIsReverse ==
    (kind = "rev" /\ nseek = 0) =>
        /\ Yields(Descending(Stored))
        /\ exhausted => KeysOf(out) = Reverse(DrainNext(nodes, Iterator(RootAddr)))

C3_Witness ==
    /\ kind = "rev" /\ nseek = 0
    /\ exhausted
    /\ Len(out) >= 3
    /\ InternalKey

\* C4: SeekLowerBound(k) on a fresh forward iterator at the root, then Next
\* until not-found, yields the stored keys >= k in ascending order, and
\* nothing when there is none.
C4_SeekLowerBound ==
    (kind = "fwd" /\ nseek = 1 /\ seek.op = "SeekLowerBound" /\ seek.before = "fresh"
        /\ ~fault) =>
        Yields(Ascending({k \in Stored : LexLeq(seek.key, k)}))

C4_Witness ==
    /\ kind = "fwd" /\ nseek = 1 /\ seek.op = "SeekLowerBound" /\ seek.before = "fresh"
    /\ exhausted
    /\ seek.key \notin Stored
    /\ Len(out) >= 2
    /\ Len(out) < Cardinality(Stored)

\* C5: SeekReverseLowerBound(k) on a fresh reverse iterator at the root, then
\* Previous until not-found, yields the stored keys <= k in descending order
\* and never a key greater than k.
C5_SeekReverseLowerBound ==
    (kind = "rev" /\ nseek = 1 /\ seek.op = "SeekReverseLowerBound"
        /\ seek.before = "fresh" /\ ~fault) =>
        Yields(Descending({k \in Stored : LexLeq(k, seek.key)}))

\* a stored key is a strict prefix of k and has a stored key greater than k below it
C5_Witness ==
    /\ kind = "rev" /\ nseek = 1 /\ seek.op = "SeekReverseLowerBound"
    /\ seek.before = "fresh"
    /\ exhausted
    /\ seek.key \notin Stored
    /\ Len(out) >= 2
    /\ \E a \in Stored, b \in Stored :
          /\ a # seek.key /\ IsPrefix(a, seek.key)
          /\ IsPrefix(a, b) /\ LexLess(seek.key, b)

\* the stored keys that are prefixes of k
PrefixesOf(k) == {p \in Stored : IsPrefix(p, k)}

\* C6: LongestPrefix(k) returns the longest stored key that is a prefix of
\* k, with its value, and not-found exactly when no stored key is one.
C6_LongestPrefix ==
    call.op = "LongestPrefix" =>
        IF PrefixesOf(call.arg) = {}
        THEN call.ret = [key |-> <<>>, val |-> <<>>, ok |-> FALSE]
        ELSE LET best == CHOOSE p \in PrefixesOf(call.arg) :
                            \A q \in PrefixesOf(call.arg) : Len(q) <= Len(p)
             IN  call.ret = [key |-> <<best>>, val |-> <<kv[best]>>, ok |-> TRUE]

C6_Witness ==
    /\ call.op = "LongestPrefix"
    /\ call.ret.ok
    /\ call.arg \notin Stored
    /\ Cardinality(PrefixesOf(call.arg)) >= 2
    /\ call.ret.key[1] # <<>>

\* C7: Minimum() returns the smallest stored key with its value, and
\* not-found on the empty tree.
C7_Minimum ==
    call.op = "Minimum" =>
        IF Stored = {}
        THEN call.ret = [key |-> <<>>, val |-> <<>>, ok |-> FALSE]
        ELSE LET least == Ascending(Stored)[1]
             IN  call.ret = [key |-> <<least>>, val |-> <<kv[least]>>, ok |-> TRUE]

\* the minimum lies on a node with stored keys below it, under the root
C7_Witness ==
    /\ call.op = "Minimum"
    /\ call.ret.ok
    /\ call.ret.key[1] # <<>>
    /\ \E b \in Stored : b # call.ret.key[1] /\ IsPrefix(call.ret.key[1], b)

\* C8: Maximum() returns the largest stored key with its value, never the
\* key of a node that has stored keys below it, and not-found on the empty
\* tree.
C8_Maximum ==
    call.op = "Maximum" =>
        IF Stored = {}
        THEN call.ret = [key |-> <<>>, val |-> <<>>, ok |-> FALSE]
        ELSE LET greatest == Descending(Stored)[1]
             IN  /\ call.ret = [key |-> <<greatest>>, val |-> <<kv[greatest]>>, ok |-> TRUE]
                 /\ \A b \in Stored : IsPrefix(call.ret.key[1], b) => b = call.ret.key[1]

\* the last edge of the root leads to a node that holds a key and has children
C8_Witness ==
    /\ call.op = "Maximum"
    /\ call.ret.ok
    /\ \E a \in Stored : a # <<>> /\ a # call.ret.key[1] /\ IsPrefix(a, call.ret.key[1])

\* the calls of a walk over `expected` with a callback true on stopOn
RECURSIVE UpToStop(_, _)
UpToStop(expected, stopOn) ==
    IF expected = <<>> THEN <<>>
    ELSE IF Head(expected) \in stopOn THEN <<Head(expected)>>
    ELSE <<Head(expected)>> \o UpToStop(Tail(expected), stopOn)

\* C9: WalkPrefix(p, fn) calls fn on the stored keys having prefix p, in
\* ascending order, on no other key, and not again once fn returned true.
C9_WalkPrefix ==
    call.op = "WalkPrefix" =>
        /\ KeysOf(call.ret) =
              UpToStop(Ascending({k \in Stored : IsPrefix(call.arg, k)}), call.stopOn)
        /\ \A j \in 1..Len(call.ret) : call.ret[j][2] = kv[call.ret[j][1]]

\* fn returned true before the last key under a non-empty prefix
C9_Witness ==
    /\ call.op = "WalkPrefix"
    /\ call.arg # <<>>
    /\ Len(call.ret) >= 2
    /\ Len(call.ret) < Cardinality({k \in Stored : IsPrefix(call.arg, k)})
    /\ Cardinality({k \in Stored : IsPrefix(call.arg, k)}) < Cardinality(Stored)

\* p ends inside an edge label and the walk starts at the child
C9_InsideEdge ==
    /\ call.op = "WalkPrefix"
    /\ EndsInsideEdge(call.arg)
    /\ call.ret # <<>>

\* C10: on a forward iterator on which only Next was called, SeekPrefix(p)
\* then Next until not-found yields the stored keys having prefix p in
\* ascending order, and none of the keys the earlier calls left on the stack.
C10_SeekPrefixAfterNext ==
    (kind = "fwd" /\ nseek = 1 /\ seek.op = "SeekPrefix" /\ ~fault) =>
        Yields(Ascending({k \in Stored : IsPrefix(seek.key, k)}))

\* the seek came after a partial drain that left slices on the stack
C10_Witness ==
    /\ kind = "fwd" /\ nseek = 1 /\ seek.op = "SeekPrefix"
    /\ seek.before = "partial" /\ seek.left >= 1
    /\ exhausted
    /\ Len(out) >= 2
    /\ Len(out) < Cardinality(Stored)

\* C11: on a reverse iterator on which only Previous was called, SeekPrefix(p)
\* then Previous until not-found yields the stored keys having prefix p in
\* descending order, whatever calls were made before the seek.
C11_RevSeekPrefixAfterPrevious ==
    (kind = "rev" /\ nseek = 1 /\ seek.op = "SeekPrefix" /\ ~fault) =>
        Yields(Descending({k \in Stored : IsPrefix(seek.key, k)}))

\* the same for a seek made before any Previous call or after not-found:
\* expandedParents is empty then
C11_RevSeekPrefixUnstepped ==
    (kind = "rev" /\ nseek = 1 /\ seek.op = "SeekPrefix" /\ ~fault
        /\ seek.before # "partial") =>
        Yields(Descending({k \in Stored : IsPrefix(seek.key, k)}))

\* C12: WalkBackwards(fn) with fn never true calls fn on every stored key
\* once, in the reverse of the order of Walk(fn): descending key order.
C12_WalkBackwardsIsReverse ==
    (call.op = "WalkBackwards" /\ call.stopOn = {}) =>
        /\ KeysOf(call.ret) = Reverse(KeysOf(Walk(nodes, RootAddr, {})))
        /\ KeysOf(call.ret) = Descending(Stored)

\* what does hold: every stored key is visited once
C12_WalkBackwardsVisitsAll ==
    (call.op = "WalkBackwards" /\ call.stopOn = {}) =>
        /\ Len(call.ret) = Cardinality(Stored)
        /\ {call.ret[j][1] : j \in 1..Len(call.ret)} = Stored

\* The nodes the descent for k enters: the root, and each child reached by
\* the edge labelled with the next byte of k from a node whose whole path is
\* consumed by k (the child is entered before its prefix is compared).
Entered(k) ==
    {RootAddr} \cup
    {a \in DOMAIN nodes : \E p \in DOMAIN nodes :
        /\ IsPrefix(p, k) /\ Len(p) < Len(k)
        /\ \E j \in 1..Len(nodes[p].edges) :
              /\ nodes[p].edges[j].label = k[Len(p) + 1]
              /\ nodes[p].edges[j].node = a}

LastEntered(k) ==
    CHOOSE a \in Entered(k) : \A b \in Entered(k) : Len(b) <= Len(a)

\* C13 as stated: GetWatch(k) returns the watch signal of the last node
\* entered during the descent (the root's when no edge was followed), both
\* when k is found and when it is not.
C13_GetWatchLastNode ==
    call.op = "GetWatch" => call.ret.watch = nodeMutateCh(LastEntered(call.arg))

\* C13 amended: when k is not stored, GetWatch(k) returns the watch signal of
\* the last node entered during the descent (the root's when no edge was
\* followed); when k is stored it returns the watch signal of k's leaf record.
C13_GetWatchLeafOrLastNode ==
    call.op = "GetWatch" =>
        IF call.arg \in Stored
        THEN /\ call.ret.ok
             /\ call.ret.watch = leafMutateCh(leafNode(call.arg, kv[call.arg]))
        ELSE /\ ~call.ret.ok
             /\ call.ret.watch = nodeMutateCh(LastEntered(call.arg))

\* a miss inside a child's prefix: the child was entered and its watch returned
C13_Witness ==
    /\ call.op = "GetWatch"
    /\ call.arg \notin Stored
    /\ LastEntered(call.arg) # RootAddr
    /\ ~IsPrefix(LastEntered(call.arg), call.arg)
    /\ call.ret.watch = nodeMutateCh(LastEntered(call.arg))

\* a hit: the leaf's watch is returned, not the node's
C13_WitnessFound ==
    /\ call.op = "GetWatch"
    /\ call.arg \in Stored
    /\ call.ret.watch # nodeMutateCh(LastEntered(call.arg))

\* C14: when readers call getMutateCh concurrently on a node (or a leaf)
\* that has no watch signal, under every interleaving exactly one allocated
\* channel is installed in the slot, and every call, concurrent or later,
\* returns that channel.
C14_OneSignalInstalled ==
    \A o \in Owners :
        /\ Len(installed[o]) <= 1
        /\ \A r \in Readers : \A j \in 1..Len(returned[r]) :
              returned[r][j].on = o =>
                  /\ Len(installed[o]) = 1
                  /\ returned[r][j].ch = installed[o][1]
                  /\ returned[r][j].ch # <<>>
                  /\ mutateCh[o] = AddrOf(installed[o][1])

\* readers raced on the node: one won the swap, another lost it and
\* reloaded, and the later calls returned at the first load
C14_Witness ==
    /\ \A r \in Readers :
          /\ readers[r].pc = "idle"
          /\ Len(returned[r]) = 2
          /\ returned[r][1].on = "node"
          /\ returned[r][2].on = "node"
          /\ returned[r][2].by = "Load"
    /\ \E r \in Readers : returned[r][1].by = "CompareAndSwap"
    /\ \E r \in Readers : returned[r][1].by = "Reload"

Edges(o) == Visible(arrays, objs[o].edges)

StrictlyAscending(edges) ==
    \A j \in 1..(Len(edges) - 1) : edges[j].label < edges[j + 1].label

Without(edges, l) == SelectSeq(edges, LAMBDA e : e.label # l)

\* C16: from a node whose edge labels are strictly ascending, after any
\* sequence of addEdge (label absent), replaceEdge (label present) and
\* delEdge (any label) the labels are still strictly ascending; addEdge adds
\* exactly the given edge, delEdge removes exactly the edge of the given
\* label and changes nothing when the label is absent, and getEdge(l)
\* returns the child of label l iff there is such an edge.
C16_EdgesStaySorted ==
    \A o \in {"n", "nn"} : objs[o].live =>
        /\ StrictlyAscending(Edges(o))
        /\ (last.on = o /\ last.op = "addEdge") =>
              /\ Len(Edges(o)) = Len(last.before) + 1
              /\ Without(Edges(o), last.label) = last.before
              /\ \E j \in 1..Len(Edges(o)) : Edges(o)[j] = edge(last.label, last.node)
        /\ (last.on = o /\ last.op = "delEdge") =>
              Edges(o) = Without(last.before, last.label)
        /\ \A l \in Labels :
              LET got == getEdge(View(arrays, objs[o]), l)
              IN  IF HasLabel(Edges(o), l)
                  THEN /\ got.idx \in 0..(Len(Edges(o)) - 1)
                       /\ Edges(o)[got.idx + 1].label = l
                       /\ got.node = Ptr(Edges(o)[got.idx + 1].node)
                  ELSE got.idx = -1 /\ got.node = Nil

\* an edge was added in front of two others: the append moved the edges to
\* a larger backing array and the two were shifted up
C16_Witness ==
    /\ last.op = "addEdge"
    /\ Len(last.before) = 2
    /\ last.label < last.before[1].label
    /\ Len(Edges(last.on)) = 3

\* an absent label was deleted from a node with edges: nothing changed
C16_WitnessDelAbsent ==
    /\ last.op = "delEdge"
    /\ Len(last.before) = 2
    /\ ~HasLabel(last.before, last.label)

\* C17: replaceEdge(e) on a node without an edge labelled e.label panics and
\* leaves the edge list as it was; on a node with such an edge it replaces
\* that edge's child only: the other edges, all labels and the number of
\* edges are unchanged.
C17_ReplaceEdge ==
    last.op = "replaceEdge" =>
        IF HasLabel(last.before, last.label)
        THEN /\ ~last.panicked
             /\ Len(Edges(last.on)) = Len(last.before)
             /\ \A j \in 1..Len(last.before) :
                   /\ Edges(last.on)[j].label = last.before[j].label
                   /\ Edges(last.on)[j].node =
                         IF last.before[j].label = last.label
                         THEN last.node ELSE last.before[j].node
        ELSE /\ last.panicked
             /\ Edges(last.on) = last.before

\* replaceEdge panicked on a node that has edges on both sides of the label
C17_Witness ==
    /\ last.op = "replaceEdge"
    /\ last.panicked
    /\ Len(last.before) = 2
    /\ last.before[1].label < last.label
    /\ last.label < last.before[2].label

\* replaceEdge gave the middle edge of three another child
C17_WitnessReplaced ==
    /\ last.op = "replaceEdge"
    /\ ~last.panicked
    /\ Len(last.before) = 3
    /\ last.label = last.before[2].label
    /\ last.node # last.before[2].node

\* C18: a shallow clone of n has n's prefix bytes, n's leaf record and an
\* edge list with n's labels and children; afterwards addEdge, replaceEdge
\* and delEdge on the clone, and the replacement of the clone's prefix
\* bytes or leaf, leave n's prefix, leaf and edge list unchanged.
C18_CloneLeavesOriginal ==
    objs["nn"].live =>
        /\ View(arrays, objs["n"]) = snap
        /\ last.op = "clone" => View(arrays, objs["nn"]) = snap

\* the clone of a node with prefix, leaf and spare edge capacity had a
\* prefix byte and an edge's child replaced in place
C18_Witness ==
    /\ objs["nn"].live
    /\ Len(snap.edges) = 3
    /\ snap.leaf # Nil
    /\ View(arrays, objs["nn"]).prefix # snap.prefix
    /\ Len(Edges("nn")) = 3
    /\ Edges("nn") # snap.edges

\* C19: the clone of a node carries a freshly allocated watch signal,
\* distinct from the original's: closing the original's signal never fires
\* the clone's, and closing the clone's never fires the original's.
C19_CloneHasFreshSignal ==
    objs["nn"].live =>
        objs["nn"].mutateCh.ch # objs["n"].mutateCh.ch

\* what the code does: the clone holds the original's signal
C19_CloneSharesSignal ==
    objs["nn"].live =>
        /\ objs["nn"].mutateCh.ch = objs["n"].mutateCh.ch
        /\ objs["nn"].mutateCh.ch # <<>>

\* C20: iterator operations are total: every sequence of SeekPrefix,
\* SeekLowerBound and Next calls on an Iterator, and of SeekPrefix,
\* SeekReverseLowerBound and Previous calls on a ReverseIterator, completes
\* every call without a fault (no dereference of a nil current node).
C20_NoFault == ~fault

\* what does hold: the first seek on an iterator and every Next/Previous
\* complete; a fault is a second seek on an iterator whose node the first
\* seek left nil
C20_FaultOnlyOnReseek ==
    /\ (nseek <= 1 => ~fault)
    /\ (fault => iter.node = Nil)

\* C21: exhaustion is permanent: once Next on an Iterator (Previous on a
\* ReverseIterator) has returned not-found, every later call made without a
\* seek in between returns not-found and yields no key: the call that would
\* come next finds nothing, and the calls already made after not-found
\* found nothing.
C21_ExhaustionPermanent ==
    /\ (exhausted /\ kind = "fwd") => Next(nodes, iter).ret = <<>>
    /\ (exhausted /\ kind = "rev") => Previous(nodes, iter).ret = <<>>
    /\ again => exhausted

\* Next was called again after a seek that found keys was drained
C21_Witness ==
    /\ again /\ exhausted
    /\ kind = "fwd"
    /\ nseek >= 1
    /\ Len(out) >= 2

\* Previous was called again after a whole-tree iteration
C21_WitnessWholeTree ==
    /\ again /\ exhausted
    /\ kind = "rev"
    /\ nseek = 0
    /\ Len(out) >= 2

\* Next was called again after a seek that found no key in a tree with keys
C21_WitnessNoneFound ==
    /\ again /\ exhausted
    /\ kind = "fwd"
    /\ nseek >= 1
    /\ out = <<>>
    /\ Stored # {}

====
